---- MODULE Spec2Model ----
(***************************************************************************)
(* Approval workflow, totals and accounting hand-off of the travel and     *)
(* expense application (kenja): the relational tables, the stored          *)
(* procedure advance_approval_workflow with the triggers of the two        *)
(* alternative backend migrations, the application-approval edge function, *)
(* the expense-ocr edge function and the useApplications hook.             *)
(*                                                                         *)
(* The hook's React state (applications, loading, error) is a cache of the *)
(* tables and is not part of the state modelled here.                      *)
(***************************************************************************)
EXTENDS Integers, Sequences, FiniteSets, TLC

\* ------------------------------------------------------------------ bounds
MaxAmount == 1
MaxItems == 1
MaxApprovals == 2
MaxSubmitNotices == 1
MaxClock == 3
MaxSent == 3

\* ------------------------------------------------------------------ values
NULL == "NULL"
UNDEFINED == "undefined"
Now == "now"
NullAmount == 0 - 1
NoAmount == 0 - 2

\* one application: every operation addresses one applications row by its id
AppIds == {1}
\* the applicationId of a request that names none
NoApp == 1 - 1
Owner == "u1"
Approver == "m1"
UnknownUser == "x9"
Org == "o1"
Calls == {"c1", "c2"}

Types == {"business_trip", "expense"}
Statuses == {"draft", "pending", "approved", "rejected", "returned"}
Actions == {"approved", "rejected", "returned"}
CommentStrings == {"", " ", "x"}
Amounts == 0..MaxAmount

VARIABLES
  installed,                   \* which backend migration defines procedure and triggers
  variable_conflict,           \* plpgsql.variable_conflict of the database
  accounting_configured,       \* organizations.settings.accounting.services[defaultService]
  applications,                \* table applications: id -> row
  expense_items,               \* table expense_items: application id -> amounts of its rows
  business_trip_details,       \* table business_trip_details: application id -> its rows
  application_approvals,       \* table application_approvals (without comment), in insertion order
  notifications,               \* table notifications, in insertion order
  accounting_integration_logs, \* table accounting_integration_logs, in insertion order
  calls,                       \* approval requests in flight: call -> position and locals
  last,                        \* what the last hook operation returned
  notification_reads,          \* columns read, read_at of notifications: row number -> values
  local_notifications,         \* notifications state of useNotifications: rows id, read, read_at
  clock,                       \* the current time
  unreadCount,                 \* unreadCount state of useNotifications
  delivered,                   \* how many INSERT events the subscription has delivered
  demoMode,                    \* localStorage demoMode is 'true'
  deleted_notifications,       \* the row numbers deleted from notifications
  authState,                   \* authState of useAuth, and the call it is waiting for
  currentView,                 \* currentView state of AuthWrapper
  sender,                      \* the request notification-sender is serving, and its answer
  transaction                  \* the payload accounting-integration built last

vars == <<installed, variable_conflict, accounting_configured, applications,
          expense_items, business_trip_details, application_approvals,
          notifications, accounting_integration_logs, calls, last,
          notification_reads, local_notifications, clock, unreadCount,
          delivered, demoMode, deleted_notifications, authState, currentView,
          sender, transaction>>

reader == <<notification_reads, local_notifications, clock, unreadCount,
            delivered, demoMode, deleted_notifications>>
config == <<installed, variable_conflict, accounting_configured>>
auth == <<authState, currentView>>
children == <<expense_items, business_trip_details>>

\* ------------------------------------------------------------- pure helpers
RECURSIVE SumSeq(_)
SumSeq(s) == IF s = <<>> THEN 0 ELSE Head(s) + SumSeq(Tail(s))

\* String.prototype.trim on the comment strings of the model
Trim(s) == IF s = " " THEN "" ELSE s

\* JavaScript truthiness of an optional string
Truthy(s) == s # UNDEFINED /\ s # NULL /\ s # ""

\* comment || null
OrNull(c) == IF Truthy(c) THEN c ELSE NULL

\* x || 0 for an optional number
OrZero(x) == IF x = NoAmount THEN 0 ELSE x

SeqsUpTo(S, n) == UNION {[1..k -> S] : k \in 0..n}

\* the data argument of createApplication: the form payloads of AuthWrapper
TripInputs == [kind : {"tripDetails"},
               estimatedDailyAllowance : Amounts \cup {NoAmount},
               estimatedTransportation : Amounts,
               estimatedAccommodation : Amounts]
ItemInputs == [kind : {"expenseItems"}, expenseItems : SeqsUpTo(Amounts, MaxItems)]
DataInputs == {[kind |-> "none"]} \cup TripInputs \cup ItemInputs

\* calculateTotalAmount(type, data) of the hook
calculateTotalAmount(type, data) ==
  IF type = "business_trip" /\ data.kind = "tripDetails"
  THEN OrZero(data.estimatedDailyAllowance)
       + OrZero(data.estimatedTransportation)
       + OrZero(data.estimatedAccommodation)
  ELSE IF type = "expense" /\ data.kind = "expenseItems"
  THEN SumSeq(data.expenseItems)
  ELSE 0

\* --------------------------------------------------------------- triggers
\* calculate_application_total: the total of the children as the trigger reads them.
\* SELECT ... INTO over no business_trip_details row leaves the variable NULL.
calculate_application_total(row, items, trips) ==
  IF row.type = "business_trip"
  THEN IF trips = <<>> THEN NullAmount
       ELSE trips[1].estimated_daily_allowance + trips[1].estimated_transportation
            + trips[1].estimated_accommodation
  ELSE SumSeq(items)

\* BEFORE UPDATE ON applications: maroon_tooth recomputes on every update,
\* lucky_night only WHEN (OLD.data IS DISTINCT FROM NEW.data)
TotalTriggerFires(dataChanged) ==
  \/ installed = "maroon_tooth"
  \/ installed = "lucky_night" /\ dataChanged

\* the row an UPDATE of applications stores, after the BEFORE UPDATE trigger
StoredRow(new, dataChanged, items, trips) ==
  IF TotalTriggerFires(dataChanged)
  THEN [new EXCEPT !.total_amount = calculate_application_total(new, items, trips)]
  ELSE new

\* ApprovalNotice addressed to the approver instead of the row's user_id
ApprovalNotice_toApprover(user, action, id) ==
  [user_id |-> Approver, type |-> "approval", action |-> action, application_id |-> id]

\* the notifications row of a decision: create_notification(app_record.user_id,
\* 'approval', ...) / INSERT INTO notifications (v_application.user_id, 'approval', ...)
ApprovalNotice(user, action, id) ==
  [user_id |-> user, type |-> "approval", action |-> action, application_id |-> id]

\* notify_on_application_submit (maroon_tooth, AFTER UPDATE ON applications):
\* the notifications the update adds
notify_on_application_submit(old, new, id) ==
  IF /\ installed = "maroon_tooth"
     /\ new.status = "pending" /\ old.status # "pending"
     /\ new.organization_id # NULL
  THEN <<ApprovalNotice(Approver, "submitted", id)>>
  ELSE <<>>

SubmitNotices == Len(SelectSeq(notifications, LAMBDA n : n.action = "submitted"))

\* AFTER INSERT/UPDATE/DELETE triggers of maroon_tooth on the child tables end in
\* UPDATE applications SET total_amount = total_amount, where total_amount names
\* both the column and the function's variable: the statement raises under
\* variable_conflict = error and stores the variable under use_variable
ChildTriggerRaises == installed = "maroon_tooth" /\ variable_conflict = "error"
ChildTriggerUpdates == installed = "maroon_tooth" /\ variable_conflict = "use_variable"

\* update_application_total_on_expense_change / ..._on_trip_change: the
\* applications row after a change of the children of application id
RowAfterChildChange(row, items, trips) ==
  IF ChildTriggerUpdates
  THEN [row EXCEPT !.total_amount = calculate_application_total(row, items, trips)]
  ELSE row

\* ------------------------------------------------------------------- state
\* the rows notifications can hold within the bounds, and their columns read
\* (DEFAULT false) and read_at (NULL: NullTime)
NotificationIds == 1..(MaxApprovals + MaxSubmitNotices + MaxSent)
NullTime == 0
Unread == [read |-> FALSE, read_at |-> NullTime]

\* no payload built yet
NoTransaction ==
  [service |-> "none", application_id |-> NoApp, details |-> <<>>, thrown |-> FALSE]

\* notification-sender between requests; email and push are the entries of results
IdleSender ==
  [pc |-> "idle", userId |-> NULL, type |-> "none", status |-> "none",
   email |-> "none", push |-> "none"]

Exists(id) == id \in DOMAIN applications

\* a request to application-approval: p_comment is comment || null, v_user_id and
\* v_status the fields of v_application the procedure read, response the HTTP
\* status answered, result what handleApproval returned (via = "hook"), requests
\* the create_entry requests sent to accounting-integration for it
IdleCall == [pc |-> "idle", via |-> "none", applicationId |-> NoApp, action |-> "none",
             p_comment |-> NULL, approverId |-> NULL, v_user_id |-> NULL, v_status |-> NULL,
             v_current_step |-> 0, sync |-> "none", response |-> "none",
             result |-> "none", requests |-> 0]

\* { success: ... } of the last hook operation that returned
Result(ok) == IF ok THEN "success" ELSE "failure"

Init ==
  /\ installed \in {"maroon_tooth", "lucky_night"}
  /\ variable_conflict \in {"error", "use_variable"}
  /\ installed = "lucky_night" => variable_conflict = "error"
  /\ accounting_configured \in BOOLEAN
  /\ applications = <<>>
  /\ expense_items = [a \in AppIds |-> <<>>]
  /\ business_trip_details = [a \in AppIds |-> <<>>]
  /\ application_approvals = <<>>
  /\ notifications = <<>>
  /\ accounting_integration_logs = <<>>
  /\ calls = [c \in Calls |-> IdleCall]
  /\ last = "none"
  /\ notification_reads = [i \in NotificationIds |-> Unread]
  /\ local_notifications = <<>>
  /\ clock = 1
  /\ unreadCount = 0
  /\ delivered = 0
  /\ demoMode = FALSE
  /\ deleted_notifications = {}
  /\ authState = [user |-> NULL, email_confirmed_at |-> FALSE, profile |-> FALSE,
                  onboarding_completed |-> FALSE, loading |-> TRUE,
                  pending |-> "getInitialSession"]
  /\ currentView = "login"
  /\ sender = IdleSender
  /\ transaction = NoTransaction

\* applications.total_amount is not nullable: an UPDATE whose BEFORE UPDATE
\* trigger computes NULL raises and stores nothing
UpdateRaises(id, new, dataChanged) ==
  StoredRow(new, dataChanged, expense_items[id],
            business_trip_details[id]).total_amount = NullAmount

\* UPDATE applications SET ... WHERE id = id, with its triggers: new is the row
\* the statement asks for, extra the notifications the caller inserts with it
UpdateApplicationsRow(id, new, dataChanged, extra) ==
  LET old == applications[id]
      stored == StoredRow(new, dataChanged, expense_items[id], business_trip_details[id])
      notices == notify_on_application_submit(old, stored, id)
  IN /\ notices # <<>> => SubmitNotices < MaxSubmitNotices
     /\ applications' = [applications EXCEPT ![id] = stored]
     /\ notifications' = notifications \o notices \o extra

\* ------------------------------------------------------ useApplications hook
TripRow(data) ==
  [estimated_daily_allowance |-> OrZero(data.estimatedDailyAllowance),
   estimated_transportation |-> OrZero(data.estimatedTransportation),
   estimated_accommodation |-> OrZero(data.estimatedAccommodation)]

\* the row inserted as already submitted
NewApplication_pending(user, type, data) ==
  [user_id |-> user, organization_id |-> Org, type |-> type, title |-> "t0",
   total_amount |-> calculateTotalAmount(type, data), status |-> "pending",
   submitted_at |-> NULL, approved_at |-> NULL, approved_by |-> NULL,
   rejection_reason |-> NULL]

\* .from('applications').insert({user_id: user.id, ..., status: 'draft'})
NewApplication(user, type, data) ==
  [user_id |-> user, organization_id |-> Org, type |-> type, title |-> "t0",
   total_amount |-> calculateTotalAmount(type, data), status |-> "draft",
   submitted_at |-> NULL, approved_at |-> NULL, approved_by |-> NULL,
   rejection_reason |-> NULL]

\* createApplication(type, title, data) called with session user `user`, whose
\* profile names organization Org; childError: the insert of the children is refused
createApplication(user, type, data, childError) ==
  IF user = NULL
  THEN /\ last' = Result(FALSE)
       /\ UNCHANGED <<auth, config, transaction, reader, sender, applications, children, application_approvals,
                      notifications, accounting_integration_logs, calls>>
  ELSE /\ DOMAIN applications # AppIds
       /\ LET id == CHOOSE a \in AppIds : a \notin DOMAIN applications
              row == NewApplication(user, type, data)
              refused == childError \/ ChildTriggerRaises
              trips == IF type = "business_trip" /\ data.kind = "tripDetails" /\ ~refused
                       THEN <<TripRow(data)>> ELSE <<>>
              items == IF type = "expense" /\ data.kind = "expenseItems" /\ ~refused
                       THEN data.expenseItems ELSE <<>>
              fired == trips # <<>> \/ items # <<>>
          IN /\ applications' = applications @@
                   (id :> IF fired THEN RowAfterChildChange(row, items, trips) ELSE row)
             /\ business_trip_details' = [business_trip_details EXCEPT ![id] = trips]
             /\ expense_items' = [expense_items EXCEPT ![id] = items]
             /\ last' = Result(TRUE)
       /\ UNCHANGED <<auth, config, transaction, reader, sender, application_approvals, notifications,
                      accounting_integration_logs, calls>>

\* the updates argument of updateApplication: the content columns (title,
\* data), with data changed or not
Titles == {"t0", "t1"}
UpdateInputs == [title : Titles, dataChanged : BOOLEAN]

\* updateApplication(id, updates): the row with the columns of updates
UpdatedRow(row, updates) == [row EXCEPT !.title = updates.title]

updateApplication(id, updates) ==
  IF ~Exists(id) \/ UpdateRaises(id, UpdatedRow(applications[id], updates),
                                 updates.dataChanged)
  THEN /\ last' = Result(FALSE)
       /\ UNCHANGED <<auth, config, transaction, reader, sender, applications, children, application_approvals,
                      notifications, accounting_integration_logs, calls>>
  ELSE /\ UpdateApplicationsRow(id, UpdatedRow(applications[id], updates),
                                updates.dataChanged, <<>>)
       /\ last' = Result(TRUE)
       /\ UNCHANGED <<auth, config, transaction, reader, sender, children, application_approvals,
                      accounting_integration_logs, calls>>

\* the application_approvals rows that reference application id
ApprovalsOf(id) ==
  {i \in DOMAIN application_approvals : application_approvals[i].application_id = id}

\* the foreign key of application_approvals with ON DELETE CASCADE
DeleteRefused_cascade(id) == FALSE

\* application_approvals.application_id REFERENCES applications(id): the DELETE
\* of a referenced applications row raises
DeleteRefused(id) == ApprovalsOf(id) # {}

\* deleteApplication(id): DELETE FROM applications WHERE id = id; the rows of
\* expense_items, business_trip_details and accounting_integration_logs go with
\* it (ON DELETE CASCADE)
deleteApplication(id) ==
  IF Exists(id) /\ DeleteRefused(id)
  THEN /\ last' = Result(FALSE)
       /\ UNCHANGED <<auth, config, transaction, reader, sender, applications, children, application_approvals,
                      notifications, accounting_integration_logs, calls>>
  ELSE /\ applications' = [a \in DOMAIN applications \ {id} |-> applications[a]]
       /\ expense_items' = [expense_items EXCEPT ![id] = <<>>]
       /\ business_trip_details' = [business_trip_details EXCEPT ![id] = <<>>]
       /\ accounting_integration_logs' =
            SelectSeq(accounting_integration_logs,
                      LAMBDA r : r.application_id # id)
       /\ last' = Result(TRUE)
       /\ UNCHANGED <<auth, config, transaction, reader, sender, application_approvals, notifications, calls>>

\* submitApplication(id)
SubmittedRow(row) == [row EXCEPT !.status = "pending", !.submitted_at = Now]

submitApplication(id) ==
  IF ~Exists(id) \/ UpdateRaises(id, SubmittedRow(applications[id]), FALSE)
  THEN /\ last' = Result(FALSE)
       /\ UNCHANGED <<auth, config, transaction, reader, sender, applications, children, application_approvals,
                      notifications, accounting_integration_logs, calls>>
  ELSE /\ UpdateApplicationsRow(id, SubmittedRow(applications[id]), FALSE, <<>>)
       /\ last' = Result(TRUE)
       /\ UNCHANGED <<auth, config, transaction, reader, sender, children, application_approvals,
                      accounting_integration_logs, calls>>

\* the updates object handleApproval builds, applied to a row; JSON drops the
\* keys whose value is undefined
ApprovalUpdates(row, user, action, comment) ==
  IF action = "approved"
  THEN [row EXCEPT !.status = action, !.approved_at = Now,
                   !.approved_by = IF user = NULL THEN @ ELSE user]
  ELSE [row EXCEPT !.status = action,
                   !.rejection_reason = IF comment = UNDEFINED THEN @ ELSE comment]

\* handleApproval(applicationId, action, comment) of src/hooks/useApplications.ts:
\* one UPDATE of the applications row
handleApproval(user, id, action, comment) ==
  IF ~Exists(id) \/ UpdateRaises(id, ApprovalUpdates(applications[id], user, action,
                                                     comment), FALSE)
  THEN /\ last' = Result(FALSE)
       /\ UNCHANGED <<auth, config, transaction, reader, sender, applications, children, application_approvals,
                      notifications, accounting_integration_logs, calls>>
  ELSE /\ UpdateApplicationsRow(id,
            ApprovalUpdates(applications[id], user, action, comment), FALSE, <<>>)
       /\ last' = Result(TRUE)
       /\ UNCHANGED <<auth, config, transaction, reader, sender, children, application_approvals,
                      accounting_integration_logs, calls>>

\* handleAction(action) of the ApprovalWorkflow component, the caller of
\* handleApproval: comment is the text of the comment box, user the session user
handleAction(user, id, action, comment) ==
  IF action # "approved" /\ Trim(comment) = ""
  THEN UNCHANGED vars
  ELSE handleApproval(user, id, action, comment)

\* ----------------------------------------------------- expense-ocr function
\* the handler with expenseItemId naming row k of application id: amount is
\* overwritten when the recognised amount is positive
expense_ocr(id, k, amount) ==
  /\ Exists(id)
  /\ k \in DOMAIN expense_items[id]
  /\ LET items == IF amount > 0 /\ ~ChildTriggerRaises
                  THEN [expense_items[id] EXCEPT ![k] = amount]
                  ELSE expense_items[id]
     IN /\ expense_items' = [expense_items EXCEPT ![id] = items]
        /\ applications' = [applications EXCEPT
              ![id] = RowAfterChildChange(@, items, business_trip_details[id])]
  /\ UNCHANGED <<auth, config, transaction, reader, sender, business_trip_details, application_approvals, notifications,
                 accounting_integration_logs, calls, last>>

\* ------------------------------------------- accounting-integration function
SyncOutcomes == {"ok", "service_error", "network_error"}

\* the insert of logAccountingOperation is refused by maroon_tooth's
\* CHECK (operation_type IN ('create', 'update', 'delete')); the refusal is not thrown
LogInsertAccepted(operationType) ==
  installed = "lucky_night" \/ operationType \in {"create", "update", "delete"}

logAccountingOperation(id, operationType, status) ==
  IF LogInsertAccepted(operationType)
  THEN <<[application_id |-> id, operation_type |-> operationType, status |-> status]>>
  ELSE <<>>

\* one request {applicationId: id, action: 'create_entry'} whose fetch and service
\* call end as outcome says: the HTTP status answered and the log rows written
accounting_integration(id, outcome) ==
  IF outcome = "network_error"
  THEN [status |-> "none", service_calls |-> 0, logs |-> <<>>]
  ELSE IF ~Exists(id) THEN [status |-> "404", service_calls |-> 0, logs |-> <<>>]
  ELSE IF ~accounting_configured
  THEN [status |-> "400", service_calls |-> 0,
        logs |-> logAccountingOperation(id, "create_entry", "failed")]
  ELSE IF outcome = "ok"
  THEN [status |-> "200", service_calls |-> 1,
        logs |-> logAccountingOperation(id, "create_entry", "success")]
  ELSE [status |-> "500", service_calls |-> 1,
        logs |-> logAccountingOperation(id, "create_entry", "failed")]

\* organizations.settings.accounting.defaultService
Services == {"freee", "moneyforward", "yayoi"}

\* Array.prototype.filter(detail => detail.amount > 0)
RECURSIVE PositiveDetails(_)
PositiveDetails(details) ==
  IF details = <<>> THEN <<>>
  ELSE IF Head(details).amount > 0
  THEN <<Head(details)>> \o PositiveDetails(Tail(details))
  ELSE PositiveDetails(Tail(details))

ItemDetails(items) == [k \in DOMAIN items |-> [field |-> "item", amount |-> items[k]]]

\* handleFreeeIntegration: transactionData.details
FreeeDetails(type, items, trips) ==
  IF type = "business_trip" /\ trips # <<>>
  THEN PositiveDetails(
         <<[field |-> "daily_allowance", amount |-> trips[1].estimated_daily_allowance],
           [field |-> "transportation", amount |-> trips[1].estimated_transportation],
           [field |-> "accommodation", amount |-> trips[1].estimated_accommodation]>>)
  ELSE IF type = "expense" THEN ItemDetails(items)
  ELSE <<>>

\* generateYayoiCSV: rows
YayoiRows(type, items, trips) ==
  IF type = "business_trip" /\ trips # <<>>
  THEN IF trips[1].estimated_daily_allowance > 0
       THEN <<[field |-> "daily_allowance",
               amount |-> trips[1].estimated_daily_allowance]>>
       ELSE <<>>
  ELSE IF type = "expense" THEN ItemDetails(items)
  ELSE <<>>

\* the payload handle<Service>Integration builds for create_entry: moneyforward
\* sends total_amount and no line, yayoi throws on its filename after the CSV
handleIntegration(id, service) ==
  /\ Exists(id)
  /\ accounting_configured
  /\ transaction' =
       [service |-> service, application_id |-> id,
        details |-> IF service = "freee"
                    THEN FreeeDetails(applications[id].type, expense_items[id],
                                      business_trip_details[id])
                    ELSE IF service = "yayoi"
                    THEN YayoiRows(applications[id].type, expense_items[id],
                                   business_trip_details[id])
                    ELSE <<>>,
        thrown |-> service = "yayoi"]
  /\ UNCHANGED <<auth, config, reader, sender, children, applications,
                 application_approvals, notifications,
                 accounting_integration_logs, calls, last>>

\* ---------------------------------------------- application-approval function
InFlight == {c \in Calls : calls[c].pc \in {"rpc", "selected", "stepread"}}
Running == {c \in Calls : calls[c].pc \notin {"idle", "done"}}

KnownProfiles == {Owner, Approver}

\* the request answered before the rpc
Refused(via, response) ==
  [IdleCall EXCEPT !.pc = "done", !.via = via, !.response = response,
                   !.result = IF via = "hook" THEN "failure" ELSE "none"]

\* the handler up to the rpc: required fields, approver lookup, application lookup.
\* via = "hook": the request is approveApplication's, sent by handleApproval of
\* the hook variant that calls the edge function; approverId is then the session
\* user, no request is sent without one, and handleAction sends none without the
\* comment it asks for. Call c2 is a request made while c1 runs.
application_approval_start(c, via, id, action, comment, approverId) ==
  /\ calls[c].pc \in {"idle", "done"}
  /\ via = "hook" => comment \in CommentStrings
                      /\ (action = "approved" \/ Trim(comment) # "")
  /\ c = "c2" => "c1" \in Running
  /\ Len(application_approvals) + Cardinality(InFlight) < MaxApprovals
  /\ calls' = [calls EXCEPT ![c] =
       IF via = "hook" /\ approverId = NULL THEN Refused(via, "none")
       ELSE IF id = NoApp \/ approverId = NULL THEN Refused(via, "400")
       ELSE IF approverId \notin KnownProfiles THEN Refused(via, "404")
       ELSE IF ~Exists(id) THEN Refused(via, "404")
       ELSE [IdleCall EXCEPT !.pc = "rpc", !.via = via, !.applicationId = id,
                             !.action = action, !.p_comment = OrNull(comment),
                             !.approverId = approverId]]
  /\ UNCHANGED <<auth, config, transaction, reader, sender, applications, children, application_approvals, notifications,
                 accounting_integration_logs, last>>

MaxStep(id) ==
  LET steps == {application_approvals[i].step : i \in
                  {j \in DOMAIN application_approvals :
                     application_approvals[j].application_id = id}}
  IN IF steps = {} THEN 0 ELSE CHOOSE m \in steps : \A n \in steps : n <= m

\* advance_approval_workflow: SELECT * INTO v_application
workflow_select_application(c) ==
  /\ calls[c].pc = "rpc"
  /\ LET call == calls[c]
     IN calls' = [calls EXCEPT ![c] =
          IF ~Exists(call.applicationId) THEN [call EXCEPT !.pc = "workflow_done"]
          ELSE [call EXCEPT !.v_user_id = applications[call.applicationId].user_id,
                            !.v_status = applications[call.applicationId].status,
                            !.pc = IF installed = "lucky_night" THEN "selected"
                                   ELSE "stepread"]]
  /\ UNCHANGED <<auth, config, transaction, reader, sender, applications, children, application_approvals, notifications,
                 accounting_integration_logs, last>>

\* advance_approval_workflow (lucky_night): SELECT COALESCE(MAX(step), 0) INTO v_current_step
workflow_select_step(c) ==
  /\ calls[c].pc = "selected"
  /\ calls' = [calls EXCEPT ![c] =
       [calls[c] EXCEPT !.v_current_step = MaxStep(calls[c].applicationId),
                        !.pc = "stepread"]]
  /\ UNCHANGED <<auth, config, transaction, reader, sender, applications, children, application_approvals, notifications,
                 accounting_integration_logs, last>>

\* WorkflowUpdate with the final step one approval later
WorkflowUpdate_stepOffByOne(row, approver, action, p_comment, v_current_step) ==
  IF action = "approved"
  THEN IF installed = "maroon_tooth" \/ v_current_step > 1
       THEN [row EXCEPT !.status = "approved", !.approved_at = Now,
                        !.approved_by = approver]
       ELSE [row EXCEPT !.status = "pending"]
  ELSE IF action = "rejected"
  THEN [row EXCEPT !.status = "rejected", !.rejection_reason = p_comment]
  ELSE [row EXCEPT !.status = "returned"]

\* the applications row the procedure's UPDATE asks for
WorkflowUpdate(row, approver, action, p_comment, v_current_step) ==
  IF action = "approved"
  THEN IF installed = "maroon_tooth" \/ v_current_step >= 1
       THEN [row EXCEPT !.status = "approved", !.approved_at = Now,
                        !.approved_by = approver]
       ELSE [row EXCEPT !.status = "pending"]
  ELSE IF action = "rejected"
  THEN [row EXCEPT !.status = "rejected", !.rejection_reason = p_comment]
  ELSE [row EXCEPT !.status = "returned"]

\* the step of the inserted application_approvals row: maroon_tooth names no step
\* and the column default applies
ApprovalStep(v_current_step) ==
  IF installed = "lucky_night" THEN v_current_step + 1 ELSE 1

\* advance_approval_workflow: INSERT application_approvals, UPDATE applications,
\* INSERT notifications; a raised statement rolls the transaction back and the
\* rpc returns the error
workflow_commit(c) ==
  /\ calls[c].pc = "stepread"
  /\ LET call == calls[c]
         id == call.applicationId
         new == IF Exists(id)
                THEN WorkflowUpdate(applications[id], call.approverId, call.action,
                                    call.p_comment, call.v_current_step)
                ELSE NULL
     IN IF ~Exists(id) \/ UpdateRaises(id, new, FALSE)
        THEN /\ calls' = [calls EXCEPT ![c].pc = "workflow_error"]
             /\ UNCHANGED <<applications, application_approvals, notifications>>
        ELSE /\ application_approvals' = Append(application_approvals,
                   [application_id |-> id, approver_id |-> call.approverId,
                    step |-> ApprovalStep(call.v_current_step), status |-> call.action])
             /\ UpdateApplicationsRow(id, new, FALSE,
                   <<ApprovalNotice(call.v_user_id, call.action, id)>>)
             /\ calls' = [calls EXCEPT ![c].pc = "workflow_done"]
  /\ UNCHANGED <<auth, config, transaction, reader, sender, children, accounting_integration_logs, last>>

\* the handler after the rpc: the accounting call for action approved, whose
\* failure is only logged, and the response
\* the handler answering 500 to an rpc error; callEdgeFunction throws on it and
\* handleApproval returns the failure
application_approval_error(c) ==
  /\ calls[c].pc = "workflow_error"
  /\ calls' = [calls EXCEPT ![c] =
       Refused(calls[c].via, "500")]
  /\ UNCHANGED <<auth, config, transaction, reader, sender, applications, children, application_approvals, notifications,
                 accounting_integration_logs, last>>

application_approval_respond(c, outcome) ==
  /\ calls[c].pc = "workflow_done"
  /\ LET call == calls[c]
         sync == IF call.action = "approved"
                 THEN accounting_integration(call.applicationId, outcome)
                 ELSE [status |-> "none", service_calls |-> 0, logs |-> <<>>]
     IN /\ call.action # "approved" => outcome = "ok"
        /\ accounting_integration_logs' = accounting_integration_logs \o sync.logs
        /\ calls' = [calls EXCEPT ![c] =
             [call EXCEPT !.response = "200", !.v_user_id = NULL, !.v_status = NULL,
                       !.v_current_step = 0,
                       !.p_comment = NULL, !.approverId = NULL,
                       !.sync = IF call.action = "approved" THEN outcome ELSE "none",
                       !.requests = IF call.action = "approved" THEN 1 ELSE 0,
                       !.pc = IF call.via = "hook" /\ call.action = "approved"
                              THEN "client_sync" ELSE "done",
                       !.result = IF call.via = "hook" /\ call.action # "approved"
                                  THEN "success" ELSE "none"]]
  /\ UNCHANGED <<auth, config, transaction, reader, sender, applications, children, application_approvals, notifications,
                 last>>

\* handleApproval_syncToAccounting with the failure of syncToAccounting returned
handleApproval_syncToAccounting_uncaught(c, outcome) ==
  /\ calls[c].pc = "client_sync"
  /\ accounting_integration_logs' = accounting_integration_logs
        \o accounting_integration(calls[c].applicationId, outcome).logs
  /\ calls' = [calls EXCEPT ![c] =
       [calls[c] EXCEPT !.pc = "done", !.sync = outcome, !.requests = @ + 1,
          !.result = IF accounting_integration(calls[c].applicationId, outcome).status
                          = "200"
                     THEN "success" ELSE "failure"]]
  /\ UNCHANGED <<auth, config, transaction, reader, sender, applications, children, application_approvals, notifications,
                 last>>

\* handleApproval of the hook variant calling the edge function, after
\* approveApplication returned: syncToAccounting, whose failure is caught
handleApproval_syncToAccounting(c, outcome) ==
  /\ calls[c].pc = "client_sync"
  /\ accounting_integration_logs' = accounting_integration_logs
        \o accounting_integration(calls[c].applicationId, outcome).logs
  /\ calls' = [calls EXCEPT ![c] =
       [calls[c] EXCEPT !.pc = "done", !.sync = outcome, !.result = "success",
                        !.requests = @ + 1]]
  /\ UNCHANGED <<auth, config, transaction, reader, sender, applications, children, application_approvals, notifications,
                 last>>

\* ------------------------------------------- notification-sender function
SenderTypes == {"email", "push", "both"}
ChannelOutcomes == {"sent", "throws"}

\* the insert skipped when a channel has thrown
SenderInsert_onlyDelivered(userId, type, email, push) ==
  IF email = "throws" \/ push = "throws" THEN <<>>
  ELSE <<[user_id |-> userId, type |-> IF type = "both" THEN "system" ELSE type,
          action |-> "none", application_id |-> NoApp]>>

\* .from('notifications').insert({user_id, type, title, message, data})
SenderInsert(userId, type, email, push) ==
  <<[user_id |-> userId, type |-> IF type = "both" THEN "system" ELSE type,
     action |-> "none", application_id |-> NoApp]>>

\* the handler up to the user_profiles lookup
notification_sender_start(userId, type) ==
  /\ sender.pc \in {"idle", "done"}
  /\ Len(notifications) < MaxSent
  /\ sender' = IF userId \notin KnownProfiles
                THEN [IdleSender EXCEPT !.pc = "done", !.userId = userId,
                                        !.type = type, !.status = "404"]
                ELSE [IdleSender EXCEPT !.pc = "found", !.userId = userId,
                                        !.type = type]
  /\ UNCHANGED <<auth, config, transaction, reader, children, applications, application_approvals,
                 notifications, accounting_integration_logs, calls, last>>

\* the channels the type asks for, each in its try/catch, then the insert and
\* the response
notification_sender_respond(emailOutcome, pushOutcome) ==
  /\ sender.pc = "found"
  /\ LET email == IF sender.type \in {"email", "both"} THEN emailOutcome ELSE "none"
         push == IF sender.type \in {"push", "both"} THEN pushOutcome ELSE "none"
     IN /\ sender.type \notin {"email", "both"} => emailOutcome = "sent"
        /\ sender.type \notin {"push", "both"} => pushOutcome = "sent"
        /\ notifications' = notifications
              \o SenderInsert(sender.userId, sender.type, email, push)
        /\ sender' = [sender EXCEPT !.pc = "done", !.status = "200",
                                    !.email = email, !.push = push]
  /\ UNCHANGED <<auth, config, transaction, reader, children, applications, application_approvals,
                 accounting_integration_logs, calls, last>>

\* ------------------------------------------------- useNotifications hook
\* trigger BEFORE UPDATE ON notifications: read_at on the transition to read
handle_notification_read(old, new, now) ==
  IF new.read /\ ~old.read THEN [new EXCEPT !.read_at = now] ELSE new

\* the stored rows of the user among the first n, newest first
RECURSIVE RowsOf(_, _)
RowsOf(userId, n) ==
  IF n = 0
  THEN <<>>
  ELSE (IF notifications[n].user_id = userId /\ n \notin deleted_notifications
        THEN <<[id |-> n, read |-> notification_reads[n].read,
                read_at |-> notification_reads[n].read_at]>>
        ELSE <<>>) \o RowsOf(userId, n - 1)

\* lib getNotifications: the rows of the user
getNotifications(userId) == RowsOf(userId, Len(notifications))

\* lib markNotificationAsRead: sets read, and read_at on the first transition only
markNotificationAsRead(notificationId) ==
  IF \/ notificationId \in deleted_notifications
     \/ notification_reads[notificationId].read
  THEN notification_reads
  ELSE [notification_reads EXCEPT
          ![notificationId] = [read |-> TRUE, read_at |-> clock]]

\* the two sample notifications of the demo mode
SampleNotifications ==
  << [id |-> 1, read |-> FALSE, read_at |-> NullTime],
     [id |-> 2, read |-> TRUE, read_at |-> clock] >>

\* localStorage demoMode: set by the demo login, removed by signOut
setDemoMode(on) ==
  /\ demoMode # on
  /\ demoMode' = on
  /\ UNCHANGED <<auth, config, transaction, sender, children, applications, application_approvals,
                 notifications, accounting_integration_logs, calls, last,
                 notification_reads, local_notifications, clock, unreadCount,
                 delivered, deleted_notifications>>

\* the effect of the hook without a user: the samples in demo mode
useEffect_demo ==
  /\ demoMode
  /\ local_notifications' = SampleNotifications
  /\ unreadCount' = 1
  /\ UNCHANGED <<auth, config, transaction, sender, children, applications, application_approvals,
                 notifications, accounting_integration_logs, calls, last,
                 notification_reads, clock, delivered, demoMode, deleted_notifications>>

fetchNotifications(user) ==
  /\ local_notifications' = getNotifications(user)
  /\ unreadCount' =
       Cardinality({k \in DOMAIN getNotifications(user) : ~getNotifications(user)[k].read})
  /\ UNCHANGED <<auth, config, transaction, sender, children, applications, application_approvals,
                 notifications, accounting_integration_logs, calls, last,
                 notification_reads, clock, delivered, demoMode, deleted_notifications>>

\* the callback of the INSERT subscription: the next inserted row, when it is
\* a row of the user, in front of the list and one more unread
subscribeToNotifications(user) ==
  /\ delivered < Len(notifications)
  /\ delivered' = delivered + 1
  /\ IF notifications[delivered + 1].user_id = user
     THEN /\ local_notifications' =
               <<[id |-> delivered + 1, read |-> FALSE, read_at |-> NullTime]>>
               \o local_notifications
          /\ unreadCount' = unreadCount + 1
     ELSE UNCHANGED <<local_notifications, unreadCount>>
  /\ UNCHANGED <<auth, config, transaction, sender, children, applications, application_approvals,
                 notifications, accounting_integration_logs, calls, last,
                 notification_reads, clock, demoMode, deleted_notifications>>

\* the local rows with the id marked read with a new Date()
MarkedLocally(notificationId) ==
  [k \in DOMAIN local_notifications |->
     IF local_notifications[k].id = notificationId
     THEN [local_notifications[k] EXCEPT !.read = TRUE, !.read_at = clock]
     ELSE local_notifications[k]]

\* the variant of part_004: the stored row is updated whatever the mode
MarkedStored_noDemoBranch(notificationId) ==
  markNotificationAsRead(notificationId)

\* the stored rows after markAsRead: untouched in demo mode, else the lib call
MarkedStored(notificationId) ==
  IF demoMode THEN notification_reads ELSE markNotificationAsRead(notificationId)

\* in demo mode the local rows only; otherwise the stored row through the lib
\* call, then the local rows
markAsRead(notificationId) ==
  /\ clock < MaxClock
  /\ \E k \in DOMAIN local_notifications : local_notifications[k].id = notificationId
  /\ notification_reads' = MarkedStored(notificationId)
  /\ local_notifications' = MarkedLocally(notificationId)
  /\ unreadCount' = IF unreadCount = 0 THEN 0 ELSE unreadCount - 1
  /\ clock' = clock + 1
  /\ UNCHANGED <<auth, config, transaction, sender, children, applications, application_approvals,
                 notifications, accounting_integration_logs, calls, last,
                 delivered, demoMode, deleted_notifications>>

\* UPDATE ... WHERE user_id = user AND read = false
MarkedAll(user) ==
  [i \in NotificationIds |->
     IF /\ i \in DOMAIN notifications
        /\ i \notin deleted_notifications
        /\ notifications[i].user_id = user
        /\ ~notification_reads[i].read
     THEN LET new == [read |-> TRUE, read_at |-> clock]
          IN  IF installed = "maroon_tooth"
              THEN handle_notification_read(notification_reads[i], new, clock)
              ELSE new
     ELSE notification_reads[i]]

\* in demo mode the local rows only; otherwise the update, then every local row
markAllAsRead(user) ==
  /\ clock < MaxClock
  /\ notification_reads' = IF demoMode THEN notification_reads ELSE MarkedAll(user)
  /\ local_notifications' =
       [k \in DOMAIN local_notifications |->
          [local_notifications[k] EXCEPT !.read = TRUE, !.read_at = clock]]
  /\ unreadCount' = 0
  /\ clock' = clock + 1
  /\ UNCHANGED <<auth, config, transaction, sender, children, applications, application_approvals,
                 notifications, accounting_integration_logs, calls, last,
                 delivered, demoMode, deleted_notifications>>

\* in demo mode the local rows only; otherwise DELETE ... WHERE id = notificationId,
\* then the local rows without it and one unread less when it was unread
deleteNotification(notificationId) ==
  /\ \E k \in DOMAIN local_notifications : local_notifications[k].id = notificationId
  /\ deleted_notifications' =
       IF demoMode THEN deleted_notifications
       ELSE deleted_notifications \cup {notificationId}
  /\ local_notifications' =
       SelectSeq(local_notifications, LAMBDA n : n.id # notificationId)
  /\ unreadCount' =
       LET deletedNotification ==
             local_notifications[CHOOSE k \in DOMAIN local_notifications :
                /\ local_notifications[k].id = notificationId
                /\ \A j \in DOMAIN local_notifications :
                     local_notifications[j].id = notificationId => k <= j]
       IN  IF ~deletedNotification.read /\ unreadCount > 0
           THEN unreadCount - 1
           ELSE unreadCount
  /\ UNCHANGED <<auth, config, transaction, sender, children, applications, application_approvals,
                 notifications, accounting_integration_logs, calls, last,
                 notification_reads, clock, delivered, demoMode>>

\* ------------------------------------------------- useAuth and AuthWrapper
\* what supabase.auth answers about the session, and getCurrentUserProfile
Sessions == {"none", "confirmed", "unconfirmed"}
ProfileResults == {"throws", "none", "incomplete", "completed"}
UpsertResults == {"error", "incomplete", "completed"}
Views == {"login", "register", "register-success", "email-confirmed",
          "onboarding", "password-reset"}

isAuthenticated == authState.user # NULL
isEmailConfirmed == (isAuthenticated /\ authState.email_confirmed_at) \/ demoMode
isOnboardingCompleted ==
  (authState.profile /\ authState.onboarding_completed) \/ demoMode

\* setAuthState({user: null, profile: null, loading: false})
SignedOut ==
  [user |-> NULL, email_confirmed_at |-> FALSE, profile |-> FALSE,
   onboarding_completed |-> FALSE, loading |-> FALSE, pending |-> "none"]

\* setAuthState({user: session.user, profile, loading: false})
SignedIn(session, profile) ==
  [user |-> Owner, email_confirmed_at |-> (session = "confirmed"),
   profile |-> (profile \in {"incomplete", "completed"}),
   onboarding_completed |-> (profile = "completed"),
   loading |-> FALSE, pending |-> "none"]

\* the first effect of useAuth: the demo session, or the stored session
getInitialSession(session, profile) ==
  /\ authState.pending = "getInitialSession"
  /\ authState' = IF demoMode THEN SignedIn("confirmed", "completed")
                  ELSE IF session = "none" THEN SignedOut
                  ELSE SignedIn(session, profile)
  /\ UNCHANGED <<currentView, config, transaction, reader, sender, children,
                 applications, application_approvals, notifications,
                 accounting_integration_logs, calls, last>>

AuthEvents == {"SIGNED_IN", "SIGNED_OUT", "TOKEN_REFRESHED"}

\* the callback of supabase.auth.onAuthStateChange
onAuthStateChange(event, session, profile) ==
  /\ event \in {"SIGNED_IN", "TOKEN_REFRESHED"} => session # "none"
  /\ event = "SIGNED_OUT" => session = "none" /\ profile = "none"
  /\ event = "SIGNED_IN" => profile # "throws"
  /\ authState' =
       CASE event = "SIGNED_IN" ->
              [SignedIn(session, profile) EXCEPT !.pending = authState.pending]
         [] event = "SIGNED_OUT" ->
              [SignedOut EXCEPT !.pending = authState.pending]
         [] event = "TOKEN_REFRESHED" ->
              IF profile = "throws"
              THEN [authState EXCEPT !.user = Owner,
                                     !.email_confirmed_at = (session = "confirmed")]
              ELSE [authState EXCEPT !.user = Owner,
                                     !.email_confirmed_at = (session = "confirmed"),
                                     !.profile = (profile # "none"),
                                     !.onboarding_completed = (profile = "completed")]
  /\ UNCHANGED <<currentView, config, transaction, reader, sender, children,
                 applications, application_approvals, notifications,
                 accounting_integration_logs, calls, last>>

\* signIn up to its await
signIn ==
  /\ authState.pending = "none"
  /\ ~authState.loading
  /\ ~isAuthenticated
  /\ authState' = [authState EXCEPT !.loading = TRUE, !.pending = "signIn"]
  /\ UNCHANGED <<currentView, config, transaction, reader, sender, children,
                 applications, application_approvals, notifications,
                 accounting_integration_logs, calls, last>>

\* signIn after signInWithPassword answered
signIn_done(session, profile) ==
  /\ authState.pending = "signIn"
  /\ authState' = IF session = "none"
                  THEN [authState EXCEPT !.loading = FALSE, !.pending = "none"]
                  ELSE SignedIn(session, profile)
  /\ UNCHANGED <<currentView, config, transaction, reader, sender, children,
                 applications, application_approvals, notifications,
                 accounting_integration_logs, calls, last>>

\* signOut: at once in demo mode, else up to its await
signOut ==
  /\ authState.pending = "none"
  /\ ~authState.loading
  /\ isAuthenticated
  /\ IF demoMode
     THEN /\ demoMode' = FALSE
          /\ authState' = SignedOut
     ELSE /\ demoMode' = demoMode
          /\ authState' = [authState EXCEPT !.loading = TRUE, !.pending = "signOut"]
  /\ UNCHANGED <<currentView, config, transaction, sender, children,
                 applications, application_approvals, notifications,
                 accounting_integration_logs, calls, last,
                 notification_reads, local_notifications, clock, unreadCount,
                 delivered, deleted_notifications>>

\* signOut after supabase.auth.signOut answered
signOut_done(ok) ==
  /\ authState.pending = "signOut"
  /\ authState' = IF ok THEN SignedOut
                  ELSE [authState EXCEPT !.loading = FALSE, !.pending = "none"]
  /\ UNCHANGED <<currentView, config, transaction, reader, sender, children,
                 applications, application_approvals, notifications,
                 accounting_integration_logs, calls, last>>

\* updateProfile up to its await
updateProfile ==
  /\ authState.pending = "none"
  /\ ~authState.loading
  /\ isAuthenticated
  /\ authState' = [authState EXCEPT !.loading = TRUE, !.pending = "updateProfile"]
  /\ UNCHANGED <<currentView, config, transaction, reader, sender, children,
                 applications, application_approvals, notifications,
                 accounting_integration_logs, calls, last>>

\* updateProfile after the upsert answered
updateProfile_done(profile) ==
  /\ authState.pending = "updateProfile"
  /\ authState' =
       IF profile = "error"
       THEN [authState EXCEPT !.loading = FALSE, !.pending = "none"]
       ELSE [authState EXCEPT !.profile = TRUE,
                              !.onboarding_completed = (profile = "completed"),
                              !.loading = FALSE, !.pending = "none"]
  /\ UNCHANGED <<currentView, config, transaction, reader, sender, children,
                 applications, application_approvals, notifications,
                 accounting_integration_logs, calls, last>>

\* the component AuthWrapper returns
AuthWrapper ==
  IF authState.loading THEN "Loading"
  ELSE IF isAuthenticated THEN "Dashboard"
  ELSE CASE currentView = "register" -> "Register"
         [] currentView = "register-success" -> "RegisterSuccess"
         [] currentView = "email-confirmed" -> "EmailConfirmed"
         [] currentView = "onboarding" -> "Onboarding"
         [] currentView = "password-reset" -> "PasswordReset"
         [] OTHER -> "Login"

\* the effect of AuthWrapper on the authentication state
AuthWrapper_useEffect ==
  /\ ~authState.loading
  /\ currentView' =
       IF isAuthenticated
       THEN IF ~isEmailConfirmed THEN "login"
            ELSE IF ~isOnboardingCompleted THEN "onboarding"
            ELSE currentView
       ELSE "login"
  /\ UNCHANGED <<authState, config, transaction, reader, sender, children,
                 applications, application_approvals, notifications,
                 accounting_integration_logs, calls, last>>

\* onNavigate of the view on screen
navigateToView(view) ==
  /\ AuthWrapper \notin {"Loading", "Dashboard"}
  /\ currentView' = view
  /\ UNCHANGED <<authState, config, transaction, reader, sender, children,
                 applications, application_approvals, notifications,
                 accounting_integration_logs, calls, last>>

\* ------------------------------------------------------------ specification
Comments == CommentStrings \cup {UNDEFINED}

\* the steps of one request to application-approval, sent as Vias say, its
\* accounting calls ending as Outcomes say
Approval(c, Vias, Outcomes) ==
  \/ \E via \in Vias, id \in AppIds \cup {NoApp}, a \in Actions,
        cm \in Comments, ap \in {Approver, UnknownUser, NULL} :
        application_approval_start(c, via, id, a, cm, ap)
  \/ workflow_select_application(c)
  \/ workflow_select_step(c)
  \/ workflow_commit(c)
  \/ application_approval_error(c)
  \/ \E o \in Outcomes : application_approval_respond(c, o)

ClientSync(c, Outcomes) == \E o \in Outcomes : handleApproval_syncToAccounting(c, o)

Create(Data, ChildErrors) ==
  \E u \in {NULL, Owner}, t \in Types, d \in Data, e \in ChildErrors :
     createApplication(u, t, d, e)

Update == \E id \in AppIds, u \in UpdateInputs : updateApplication(id, u)

Submit == \E id \in AppIds : submitApplication(id)

DirectApproval ==
  \E id \in AppIds, a \in Actions, cm \in CommentStrings :
     handleAction(Approver, id, a, cm)

Ocr == \E id \in AppIds, k \in 1..MaxItems, am \in Amounts : expense_ocr(id, k, am)

NoData == {[kind |-> "none"]}

\* The approval workflow: applications without children, every hook operation,
\* approval requests one at a time over HTTP with a working accounting service
InitWorkflow == Init /\ variable_conflict = "error" /\ accounting_configured

Next ==
  \/ Create(NoData, {FALSE})
  \/ Update
  \/ Submit
  \/ DirectApproval
  \/ Approval("c1", {"http"}, {"ok"})

Spec == InitWorkflow /\ [][Next]_vars

\* Totals: applications with their children, the operations that write them
NextTotals ==
  \/ Create(DataInputs, BOOLEAN)
  \/ Update
  \/ Submit
  \/ Ocr

SpecTotals == Init /\ [][NextTotals]_vars

\* Concurrent decisions: two approval requests in flight on a submitted application
NextConcurrent ==
  \/ Create(NoData, {FALSE})
  \/ Submit
  \/ \E c \in Calls : Approval(c, {"http"}, {"ok"})

SpecConcurrent == InitWorkflow /\ [][NextConcurrent]_vars

\* Accounting hand-off: approval requests one at a time, sent directly or by the
\* hook, with every outcome of the accounting call
InitAccounting == Init /\ variable_conflict = "error"

NextAccounting ==
  \/ Create(NoData, {FALSE})
  \/ Submit
  \/ Approval("c1", {"http", "hook"}, SyncOutcomes)
  \/ ClientSync("c1", SyncOutcomes)

SpecAccounting == InitAccounting /\ [][NextAccounting]_vars

\* Notifications: the owner's notification list while decisions arrive
MarkAsRead == \E i \in NotificationIds : markAsRead(i)

DeleteNotification == \E i \in NotificationIds : deleteNotification(i)

\* notification-sender storing notifications for the owner and for the approver
Notify ==
  \/ \E u \in {Owner, Approver} : notification_sender_start(u, "both")
  \/ notification_sender_respond("sent", "sent")

NextNotifications ==
  \/ Notify
  \/ fetchNotifications(Owner)
  \/ subscribeToNotifications(Owner)
  \/ MarkAsRead
  \/ markAllAsRead(Owner)
  \/ DeleteNotification

SpecNotifications == InitWorkflow /\ [][NextNotifications]_vars

\* Deletion: the owner deleting applications while decisions arrive
CreateOwned == \E t \in Types, d \in NoData : createApplication(Owner, t, d, FALSE)

Delete == \E id \in AppIds : deleteApplication(id)

NextDeletion ==
  \/ CreateOwned
  \/ Submit
  \/ Delete
  \/ Approval("c1", {"http"}, {"ok"})

SpecDeletion == InitWorkflow /\ [][NextDeletion]_vars

\* Notification sender: requests to notification-sender one at a time
NextSender ==
  \/ \E u \in {Owner, Approver, UnknownUser}, t \in SenderTypes :
        notification_sender_start(u, t)
  \/ \E e \in ChannelOutcomes, p \in ChannelOutcomes :
        notification_sender_respond(e, p)

SpecSender == Init /\ [][NextSender]_vars

\* Creation: applications created with their children, and deleted
NextCreation ==
  \/ Create(DataInputs, BOOLEAN)
  \/ Delete

SpecCreation == Init /\ [][NextCreation]_vars

\* Payloads: accounting entries built for applications with children, for an
\* organization with credentials
NextPayload ==
  \/ Create(DataInputs, {FALSE})
  \/ Ocr
  \/ Delete
  \/ \E id \in AppIds, sv \in Services : handleIntegration(id, sv)

InitPayload == Init /\ accounting_configured

SpecPayload == InitPayload /\ [][NextPayload]_vars

\* ------------------------------------------------------------------ claims
\* C1: a decision takes effect only on a pending application: when the
\* procedure's transaction ends on an application whose status is draft,
\* approved, rejected or returned, the applications row and the
\* application_approvals rows are what they were.
C1_DecideOnlyFromPending ==
  [][\A c \in Calls :
       (/\ calls[c].pc = "stepread" /\ calls'[c].pc = "workflow_done"
        /\ applications[calls[c].applicationId].status # "pending")
       => /\ applications' = applications
          /\ application_approvals' = application_approvals]_vars

\* C2: of two requests that both read the application as pending, the one whose
\* transaction ends after the other has moved the application out of pending
\* writes nothing: no second application_approvals row, no second transition.
C2_ConcurrentDecisionConflicts ==
  [][\A c \in Calls, d \in Calls :
       (/\ c # d
        /\ calls[c].pc = "workflow_done" /\ calls[c].v_status = "pending"
        /\ calls[d].pc = "stepread" /\ calls[d].v_status = "pending"
        /\ calls[d].applicationId = calls[c].applicationId
        /\ applications[calls[d].applicationId].status # "pending"
        /\ calls'[d].pc = "workflow_done")
       => /\ applications' = applications
          /\ application_approvals' = application_approvals]_vars

\* C3: in every reachable state an application has status approved exactly when
\* approved_at and approved_by are both non-null.
C3_ApprovedIffStamped ==
  \A id \in DOMAIN applications :
     applications[id].status = "approved"
       <=> (applications[id].approved_at # NULL /\ applications[id].approved_by # NULL)

\* C4: in every reachable state an application whose status is rejected or
\* returned has a non-null rejection_reason.
C4_RejectionReasonPresent ==
  \A id \in DOMAIN applications :
     applications[id].status \in {"rejected", "returned"}
       => applications[id].rejection_reason # NULL

\* C5: on a pending application, a decision rejected or returned whose comment
\* is empty or only whitespace ends without writing the application, its
\* approval records or the notifications; with a non-empty comment the
\* procedure's transaction commits.
C5_CommentRequired ==
  [][\A c \in Calls :
       (/\ calls[c].pc = "stepread" /\ calls'[c].pc # "stepread"
        /\ calls[c].action \in {"rejected", "returned"}
        /\ applications[calls[c].applicationId].status = "pending")
       => IF calls[c].p_comment = NULL \/ Trim(calls[c].p_comment) = ""
          THEN /\ applications' = applications
               /\ application_approvals' = application_approvals
               /\ notifications' = notifications
          ELSE calls'[c].pc = "workflow_done"]_vars

C7_TotalMatchesChildren ==
  \A id \in DOMAIN applications :
     applications[id].total_amount =
       IF applications[id].type = "expense" THEN SumSeq(expense_items[id])
       ELSE IF business_trip_details[id] = <<>> THEN 0
       ELSE business_trip_details[id][1].estimated_daily_allowance
            + business_trip_details[id][1].estimated_transportation
            + business_trip_details[id][1].estimated_accommodation

\* C8: submitApplication on an application that is pending, approved or rejected
\* fails and leaves it unchanged; when it succeeds the application is pending
\* with submitted_at the current time.
C8_SubmitOnlyFromDraftOrReturned ==
  [][\A id \in AppIds :
       (Exists(id) /\ submitApplication(id))
       => IF applications[id].status \in {"pending", "approved", "rejected"}
          THEN last' = "failure" /\ applications' = applications
          ELSE last' = "success" => /\ applications'[id].status = "pending"
                                    /\ applications'[id].submitted_at = Now]_vars

\* C9: once an application is approved or rejected, no step changes its status.
C9_TerminalStatusKept ==
  [][\A id \in DOMAIN applications :
       applications[id].status \in {"approved", "rejected"}
       => applications'[id].status = applications[id].status]_vars

\* C10: when the accounting call of a decision approved fails, the handler
\* still answers 200 and handleApproval still returns success, and the
\* application, the approval record and the submitter's notification written
\* by the decision stay as they are.
C10_SyncFailureKeepsApproval ==
  [][\A c \in Calls :
       LET id == calls[c].applicationId
           failed == calls'[c].sync # "ok" \/ ~accounting_configured
           kept == /\ applications' = applications
                   /\ application_approvals' = application_approvals
                   /\ notifications' = notifications
                   /\ \E i \in DOMAIN application_approvals' :
                         /\ application_approvals'[i].application_id = id
                         /\ application_approvals'[i].status = "approved"
                   /\ \E i \in DOMAIN notifications' :
                         notifications'[i] =
                           ApprovalNotice(applications[id].user_id, "approved", id)
       IN /\ (/\ calls[c].pc = "workflow_done" /\ calls'[c].pc # "workflow_done"
              /\ calls[c].action = "approved" /\ failed)
             => /\ kept
                /\ calls'[c].response = "200"
                /\ calls[c].via = "hook" => calls'[c].pc = "client_sync"
          /\ (calls[c].pc = "client_sync" /\ calls'[c].pc # "client_sync" /\ failed)
             => kept /\ calls'[c].result = "success"]_vars

\* handleApproval returned after the accounting call of its approval failed
C10_Witness ==
  \E c \in Calls :
     /\ calls[c].pc = "done" /\ calls[c].via = "hook" /\ calls[c].action = "approved"
     /\ calls[c].sync \in {"service_error", "network_error"}
     /\ calls[c].response = "200" /\ calls[c].result = "success"
     /\ \E i \in DOMAIN application_approvals :
           application_approvals[i].status = "approved"

\* C11: when the accounting call of a decision approved fails, a row of
\* accounting_integration_logs for the application with status failed exists
\* once the handler has answered.
C11_FailedSyncLogged ==
  [][\A c \in Calls :
       (/\ calls[c].pc = "workflow_done" /\ calls'[c].pc # "workflow_done"
        /\ calls[c].action = "approved"
        /\ (calls'[c].sync # "ok" \/ ~accounting_configured))
       => \E i \in DOMAIN accounting_integration_logs' :
             /\ accounting_integration_logs'[i].application_id = calls[c].applicationId
             /\ accounting_integration_logs'[i].status = "failed"]_vars

\* C12: every step that takes an application from pending to approved,
\* rejected or returned also inserts exactly one application_approvals row, for
\* that application and with that action.
C12_StatusChangesOnlyWithApproval ==
  [][\A id \in DOMAIN applications :
       (/\ applications[id].status = "pending"
        /\ applications'[id].status \in {"approved", "rejected", "returned"})
       => /\ Len(application_approvals') = Len(application_approvals) + 1
          /\ SubSeq(application_approvals', 1, Len(application_approvals))
               = application_approvals
          /\ application_approvals'[Len(application_approvals')].application_id = id
          /\ application_approvals'[Len(application_approvals')].status
               = applications'[id].status]_vars

C14_MarkReadIdempotent ==
  [][clock' # clock
     => /\ \A i \in NotificationIds :
             notification_reads[i].read
             => notification_reads'[i] = notification_reads[i]
        /\ \A k \in DOMAIN local_notifications :
             local_notifications[k].read
             => local_notifications'[k] = local_notifications[k]]_vars

\* C15: updateApplication takes effect only on a draft or returned application:
\* the content of a pending, approved or rejected application never changes.
C15_UpdateOnlyDraftOrReturned ==
  [][\A id \in DOMAIN applications :
       applications[id].status \in {"pending", "approved", "rejected"}
       => applications'[id].title = applications[id].title]_vars

C17_ReasonClearedAfterReturn ==
  [][\A id \in DOMAIN applications \cap DOMAIN applications' :
       (/\ applications[id].status = "returned"
        /\ applications[id].submitted_at # NULL
        /\ applications'[id].status \in {"pending", "approved"})
       => applications'[id].rejection_reason = NULL]_vars

\* C18: every request to the notification sender for an existing recipient
\* stores exactly one notification for that recipient, unread, whether or not
\* the email or push channel failed; no other step of the sender stores one.
C18_SenderPersistsOneRow ==
  [][IF sender.pc = "found" /\ sender'.pc = "done"
     THEN /\ Len(notifications') = Len(notifications) + 1
          /\ SubSeq(notifications', 1, Len(notifications)) = notifications
          /\ notifications'[Len(notifications')].user_id = sender.userId
          /\ ~notification_reads'[Len(notifications')].read
     ELSE notifications' = notifications]_vars

\* a request whose channels both threw has been answered and its row is stored
C18_Witness ==
  /\ sender.pc = "done"
  /\ sender.status = "200"
  /\ sender.email = "throws"
  /\ sender.push = "throws"
  /\ notifications # <<>>
  /\ notifications[Len(notifications)].user_id = sender.userId
  /\ notifications[Len(notifications)].type = "system"

\* C19: createApplication without a signed-in user returns a failure and stores
\* no application and no child row; with one, the application it stores is a
\* draft whose user_id is that user.
C19_CreatedAsCallersDraft ==
  [][\A u \in {NULL, Owner}, t \in Types, d \in DataInputs, e \in BOOLEAN :
       createApplication(u, t, d, e)
       => IF u = NULL
          THEN /\ last' = "failure"
               /\ applications' = applications
               /\ expense_items' = expense_items
               /\ business_trip_details' = business_trip_details
          ELSE /\ DOMAIN applications' # DOMAIN applications
               /\ \A id \in DOMAIN applications' \ DOMAIN applications :
                    /\ applications'[id].status = "draft"
                    /\ applications'[id].user_id = u]_vars

\* createApplication has stored an application with its children
C19_Witness ==
  /\ last = "success"
  /\ \E id \in DOMAIN applications :
        /\ applications[id].status = "draft"
        /\ applications[id].user_id = Owner
        /\ applications[id].submitted_at = NULL
        /\ expense_items[id] # <<>>

\* C20: the approval records of an application carry the steps 1, 2, 3, ... in
\* the order they were written: each new record's step is the former maximum
\* plus one, and no step occurs twice.
C20_StepsIncrease ==
  \A id \in AppIds :
     LET rows == SelectSeq(application_approvals, LAMBDA r : r.application_id = id)
     IN  \A k \in DOMAIN rows : rows[k].step = k

\* C21: a request whose application is not found, by the handler's lookup or by
\* the procedure's, or whose approver is unknown or whose required field is
\* missing, is answered with an error, and no step of it writes an approval
\* record or a notification or calls the accounting function.
C21_NotFoundWritesNothing ==
  [][\A c \in Calls :
       LET refused == /\ calls[c].pc \in {"idle", "done"}
                      /\ calls'[c].pc = "done"
                      /\ calls'[c] # calls[c]
           notFound == /\ calls[c].pc = "workflow_done"
                       /\ calls[c].v_status = NULL
                       /\ calls'[c].pc # "workflow_done"
       IN (refused \/ notFound)
          => /\ calls'[c].response \in {"400", "404", "500", "none"}
             /\ calls'[c].sync = "none"
             /\ application_approvals' = application_approvals
             /\ notifications' = notifications
             /\ accounting_integration_logs' = accounting_integration_logs]_vars

\* C22: when the organization has no accounting credentials, a create_entry
\* request that reaches the accounting function calls no accounting service,
\* appends exactly one integration log row with status failed, and is answered
\* with an error.
C22_UnconfiguredLogsFailure ==
  [][\A c \in Calls :
       (/\ calls[c].pc = "workflow_done" /\ calls'[c].pc # "workflow_done"
        /\ calls[c].action = "approved"
        /\ Exists(calls[c].applicationId)
        /\ ~accounting_configured
        /\ calls'[c].sync # "network_error")
       => /\ accounting_integration(calls[c].applicationId,
                                    calls'[c].sync).service_calls = 0
          /\ accounting_integration(calls[c].applicationId,
                                    calls'[c].sync).status = "400"
          /\ accounting_integration_logs' =
               Append(accounting_integration_logs,
                      [application_id |-> calls[c].applicationId,
                       operation_type |-> "create_entry",
                       status |-> "failed"])]_vars

\* C23: the payload built for create_entry holds, for a business trip, exactly
\* one line for each of the three estimates that is greater than zero and none
\* for the others, and for an expense application one line per expense item
\* with the item's amount.
C23_PayloadLines ==
  [][\A id \in DOMAIN applications, sv \in Services :
       handleIntegration(id, sv)
       => LET lines == transaction'.details
              trips == business_trip_details[id]
              Count(f) == Cardinality({k \in DOMAIN lines : lines[k].field = f})
              Line(f, v) == IF v > 0
                            THEN /\ Count(f) = 1
                                 /\ \A k \in DOMAIN lines :
                                      lines[k].field = f => lines[k].amount = v
                            ELSE Count(f) = 0
          IN IF applications[id].type = "business_trip"
             THEN /\ trips # <<>>
                     => /\ Line("daily_allowance", trips[1].estimated_daily_allowance)
                        /\ Line("transportation", trips[1].estimated_transportation)
                        /\ Line("accommodation", trips[1].estimated_accommodation)
                  /\ Count("item") = 0
             ELSE lines = [k \in DOMAIN expense_items[id] |->
                             [field |-> "item", amount |-> expense_items[id][k]]]]_vars

\* C24: every stored notification has a category among approval, reminder,
\* system and update.
C24_NotificationCategories ==
  \A i \in DOMAIN notifications :
     notifications[i].type \in {"approval", "reminder", "system", "update"}

\* C25: one approval sent through handleApproval leads to at most one
\* create_entry request to the accounting function.
C25_OneSyncRequestPerApproval ==
  \A c \in Calls : calls[c].via = "hook" => calls[c].requests <= 1

\* C26: the approval function calls the accounting function only for an
\* application that is stored with status approved when the call is made: when
\* it calls it after a decision on a pending application that was never
\* approved before, the application is approved.
C26_SyncOnlyWhenApproved ==
  [][\A c \in Calls :
       (/\ calls[c].pc = "workflow_done" /\ calls'[c].pc # "workflow_done"
        /\ calls'[c].requests > 0
        /\ calls[c].v_status = "pending"
        /\ Exists(calls[c].applicationId)
        /\ applications[calls[c].applicationId].approved_at = NULL)
       => applications[calls[c].applicationId].status = "approved"]_vars

\* C27: unreadCount is the number of unread rows of the local list, after any
\* sequence of fetchNotifications, INSERT events, markAsRead, markAllAsRead and
\* deleteNotification: a step from a list of distinct ids whose unread rows
\* unreadCount counts leads to a list whose unread rows unreadCount counts.
C27_UnreadCountMatches ==
  [][LET CountUnread(list) == Cardinality({k \in DOMAIN list : ~list[k].read})
         distinct == \A j, k \in DOMAIN local_notifications :
                        local_notifications[j].id = local_notifications[k].id => j = k
     IN  (distinct /\ unreadCount = CountUnread(local_notifications))
         => unreadCount' = CountUnread(local_notifications')]_vars

\* C28: under every interleaving of fetchNotifications with the INSERT
\* callbacks the local list never holds the same notification id twice, and
\* unreadCount never exceeds the number of notifications inserted for the user
\* (each inserted notification raises it by at most one).
C28_NoDuplicateNotification ==
  /\ \A j, k \in DOMAIN local_notifications :
        local_notifications[j].id = local_notifications[k].id => j = k
  /\ unreadCount <=
       Cardinality({i \in DOMAIN notifications : notifications[i].user_id = Owner})

\* ------------------------------------------------------------ demo mode
\* Demo: the notification list with the demo mode switched on and off
NextDemo ==
  \/ \E on \in BOOLEAN : setDemoMode(on)
  \/ useEffect_demo
  \/ \E u \in {Owner} : notification_sender_start(u, "both")
  \/ notification_sender_respond("sent", "sent")
  \/ fetchNotifications(Owner)
  \/ MarkAsRead
  \/ markAllAsRead(Owner)
  \/ DeleteNotification

SpecDemo == Init /\ [][NextDemo]_vars

InitAuth ==
  /\ installed = "maroon_tooth"
  /\ variable_conflict = "error"
  /\ accounting_configured = TRUE
  /\ applications = <<>>
  /\ expense_items = [a \in AppIds |-> <<>>]
  /\ business_trip_details = [a \in AppIds |-> <<>>]
  /\ application_approvals = <<>>
  /\ notifications = <<>>
  /\ accounting_integration_logs = <<>>
  /\ calls = [c \in Calls |-> IdleCall]
  /\ last = "none"
  /\ notification_reads = [i \in NotificationIds |-> Unread]
  /\ local_notifications = <<>>
  /\ clock = 1
  /\ unreadCount = 0
  /\ delivered = 0
  /\ demoMode \in BOOLEAN
  /\ deleted_notifications = {}
  /\ authState = [user |-> NULL, email_confirmed_at |-> FALSE, profile |-> FALSE,
                  onboarding_completed |-> FALSE, loading |-> TRUE,
                  pending |-> "getInitialSession"]
  /\ currentView = "login"
  /\ sender = IdleSender
  /\ transaction = NoTransaction

NextAuth ==
  \/ \E s \in Sessions, p \in ProfileResults : getInitialSession(s, p)
  \/ \E e \in AuthEvents, s \in Sessions, p \in ProfileResults :
        onAuthStateChange(e, s, p)
  \/ signIn
  \/ \E s \in Sessions, p \in ProfileResults : signIn_done(s, p)
  \/ signOut
  \/ \E ok \in BOOLEAN : signOut_done(ok)
  \/ updateProfile
  \/ \E p \in UpsertResults : updateProfile_done(p)
  \/ AuthWrapper_useEffect
  \/ \E v \in Views : navigateToView(v)

SpecAuth == InitAuth /\ [][NextAuth]_vars

\* C30: AuthWrapper renders the Dashboard only for an authenticated user with a
\* confirmed email and completed onboarding; in particular, once loading is
\* over and the effect has chosen the onboarding view for an authenticated
\* user with a confirmed email whose onboarding is not completed, the
\* component on screen is Onboarding and not the Dashboard.
C30_DashboardOnlyAfterOnboarding ==
  (/\ ~authState.loading
   /\ authState.pending = "none"
   /\ isAuthenticated
   /\ isEmailConfirmed
   /\ ~isOnboardingCompleted
   /\ currentView = "onboarding")
  => AuthWrapper = "Onboarding"

====
